---- MODULE Spec2Model ----
(***************************************************************************)
(* Model of the in-app scheduler of the Pigeon Pool backend               *)
(* (backend/utils/scheduler.py): the heartbeat loop of every service      *)
(* process, the run ledger (table scheduler_runs) and the advisory locks  *)
(* of the shared Postgres store.                                           *)
(*                                                                         *)
(* Time is counted in whole local hours since a Sunday 00:00 local.        *)
(* Every awaited store call is one atomic step.  A cancellation is         *)
(* delivered at the await the task is suspended in, and the call of that   *)
(* await then has no effect on the ledger.                                 *)
(***************************************************************************)
EXTENDS Integers, Sequences, FiniteSets, TLC

VARIABLES
    now,            \* wall clock, local hours since Sunday 00:00
    bootAt,         \* value of the clock when the behaviour started
    ledger,         \* scheduler_runs: job_name -> <<>> (no row) or <<last_at>>
    locks,          \* advisory locks held in the store: set of <<key, process>>
    hashSeed,       \* per process: the salt of str.__hash__ (PYTHONHASHSEED)
    schedulerTask,  \* per process: _SCHEDULER_TASK ("None" or "task")
    stopping,       \* per process: stop_scheduler is awaiting the cancelled task
    pc,             \* per process: the await the loop task is suspended in
    cur,            \* per process: index in JobOrder of the job being handled
    nowLoc,         \* per process: now_loc, sampled once at the top of the tick
    outcome,        \* per process: what happened so far in the current attempt
    logged,         \* per process: the line the scheduler logged for the
                    \* current attempt, tick or start/stop ("" when none)
    games,          \* table games of the modelled week: (home_abbr, away_abbr)
                    \* -> row; a triplet without a row is not in the domain
    lock_at,        \* table weeks: <<>> (no row) or <<lock_at>> of the week
    feed,           \* the scoreboard the provider serves for the week
    lastCall,       \* the most recent call on the store and what it returned
    kickoffs_utc,   \* argument of the lock-time derivation under study
    lock_out,       \* its result: <<>> before the call, <<lock_at>> after
    pending,        \* statements a session has executed and not committed:
                    \* <<>> or <<[games, written]>>
    cli,            \* the operator's run-job command: its arguments, the
                    \* await it is suspended in, what it did so far
    season,         \* tables weeks and games as the job runners and the
                    \* gates read them: week_number -> lock time, kickoff
                    \* and status of the game of the week
    jobResult       \* what the runner last executed by a loop returned

\* the state of the reconciliation engine and of the lock-time derivation
syncVars == <<games, lock_at, feed, lastCall, kickoffs_utc, lock_out, pending>>

\* the state the job runners read and leave
runVars == <<season, jobResult>>

vars == <<now, bootAt, ledger, locks, hashSeed, schedulerTask, stopping,
          pc, cur, nowLoc, outcome, logged, syncVars, cli, runVars, runVars>>

-----------------------------------------------------------------------------
(* Bounds and configuration *)

\* service processes that share the store
Inst == {"p1", "p2"}

\* salts a process may draw for str.__hash__
Seeds == {0, 1}

\* hours the clock may advance in one behaviour
MaxElapsed == 1

\* clock values at which a behaviour may start:
\* Sun 17:00, Mon 17:00, Tue 08:00
StartTimes == {17, 41, 56}

SecondsPerHour == 60 * 60

LIVE_POLL_SECONDS == 3600
KICKOFF_SYNC_HOUR == 6
TUE_WARNING_HOUR == 9
EmailHour == 18

JobOrder == <<"kickoff_sync", "score_sync", "email_sun", "email_mon", "email_tue_warn">>

Jobs == {JobOrder[k] : k \in 1..Len(JobOrder)}

JobCode(j) == CHOOSE k \in 1..Len(JobOrder) : JobOrder[k] = j

\* predicate argument of the _maybe_run call of each job
HasPredicate(j) == j # "kickoff_sync"

-----------------------------------------------------------------------------
(* Calendar utilities *)

Hour(t) == t % 24

Date(t) == t \div 24

\* datetime.weekday(): Monday = 0 .. Sunday = 6; hour 0 is a Sunday
Weekday(t) == (Date(t) + 6) % 7

start_of_local_week_sun(t) ==
    LET dow == (Weekday(t) + 1) % 7
    IN  (t - Hour(t)) - 24 * dow

local_monday_start(t) == start_of_local_week_sun(t) + 24

local_tuesday_start(t) == start_of_local_week_sun(t) + 48

-----------------------------------------------------------------------------
(* Lock identity *)

Abs(n) == IF n < 0 THEN 0 - n ELSE n

\* n % (2**31), written with 2**30 because 2**31 exceeds TLC's integers
Mod2p31(n) == ((n \div (2^30)) % 2) * (2^30) + (n % (2^30))

\* hash(str): a keyed hash, salted per process; signed
PyHash(seed, name) ==
    LET c == JobCode(name)
        h == c * 1000003 + seed * 7919 * c
    IN  IF (c + seed) % 2 = 0 THEN h ELSE 0 - h

job_key(seed, job_name) == Mod2p31(Abs(PyHash(seed, job_name)))

-----------------------------------------------------------------------------
(* Due checks *)

\* the calendar-only condition tested before the ledger is read
TimeDue(j, nl) ==
    CASE j = "kickoff_sync"   -> Hour(nl) >= KICKOFF_SYNC_HOUR
      [] j = "score_sync"     -> TRUE
      [] j = "email_sun"      -> Weekday(nl) = 6 /\ Hour(nl) >= EmailHour
      [] j = "email_mon"      -> Weekday(nl) = 0 /\ Hour(nl) >= EmailHour
      [] j = "email_tue_warn" -> Weekday(nl) = 1 /\ Hour(nl) >= TUE_WARNING_HOUR

\* the condition on the value read from the ledger
LedgerDue(j, last, nl, nowUtc) ==
    \/ last = <<>>
    \/ /\ last # <<>>
       /\ CASE j = "kickoff_sync"   -> Date(last[1]) # Date(nl)
            [] j = "score_sync"     -> (nowUtc - last[1]) * SecondsPerHour >= LIVE_POLL_SECONDS
            [] j = "email_sun"      -> last[1] < start_of_local_week_sun(nl)
            [] j = "email_mon"      -> last[1] < local_monday_start(nl)
            [] j = "email_tue_warn" -> last[1] < local_tuesday_start(nl)

-----------------------------------------------------------------------------
(* Positions of the loop task *)

\* awaits inside the try/finally of _maybe_run, before the finally clause
InTry == {"gate", "run", "touch", "commit"}

\* awaits of the finally clause
InFinally == {"unlock", "unlock_exc", "unlock_cancel"}

Critical == InTry \cup InFinally

JobOf(i) == JobOrder[cur[i]]

HoldsLock(i) == \E l \in locks : l[2] = i

Release(i) == {l \in locks : l[2] # i}

-----------------------------------------------------------------------------
(* Initial state: freshly imported modules, empty ledger, no lock.  Each   *)
(* process draws its salt when it starts; only whether two salts are equal *)
(* matters, so the salt of p1 is the reference.                            *)

\* no call on the store has been made
NoCall == [op |-> "none", count |-> 0, written |-> {}, raised |-> FALSE,
           repeat |-> FALSE]

\* empty tables games and weeks, nothing fetched, nothing derived
SyncIdle ==
    /\ games = <<>>
    /\ lock_at = <<>>
    /\ feed = <<>>
    /\ lastCall = NoCall
    /\ kickoffs_utc = {}
    /\ lock_out = <<>>
    /\ pending = <<>>

\* no week is stored
NoSeason == <<>>

\* no runner has returned
NoResult == [job |-> "", weeks |-> {}, sent |-> <<>>]

\* no run-job command is running
CliIdle == [pc |-> "none", job |-> "", mark |-> FALSE, ran |-> 0,
            raised |-> FALSE, marked |-> 0, code |-> <<>>]

SchedulerInit ==
    /\ now \in StartTimes
    /\ bootAt = now
    /\ ledger = [j \in Jobs |-> <<>>]
    /\ locks = {}
    /\ hashSeed \in {f \in [Inst -> Seeds] : f["p1"] = 0}
    /\ schedulerTask = [i \in Inst |-> "None"]
    /\ stopping = [i \in Inst |-> FALSE]
    /\ pc = [i \in Inst |-> "none"]
    /\ cur = [i \in Inst |-> 0]
    /\ nowLoc = [i \in Inst |-> 0]
    /\ outcome = [i \in Inst |-> "none"]
    /\ logged = [i \in Inst |-> ""]
    /\ cli = CliIdle
    /\ season = NoSeason
    /\ jobResult = NoResult

Init == SchedulerInit /\ SyncIdle

-----------------------------------------------------------------------------
(* Control transfers of the loop task *)

\* _maybe_run returned normally: on to the next job, or to the sleep
ToNextJob(i) ==
    LET more == cur[i] < Len(JobOrder)
    IN  /\ pc' = [pc EXCEPT ![i] = IF more THEN "due" ELSE "sleep"]
        /\ cur' = [cur EXCEPT ![i] = IF more THEN cur[i] + 1 ELSE 0]
        /\ nowLoc' = [nowLoc EXCEPT ![i] = IF more THEN nowLoc[i] ELSE 0]
        /\ outcome' = [outcome EXCEPT ![i] = "none"]
        /\ logged' = [logged EXCEPT ![i] = ""]

LoopError_endsTask(i) ==
    /\ pc' = [pc EXCEPT ![i] = "done"]
    /\ cur' = [cur EXCEPT ![i] = 0]
    /\ nowLoc' = [nowLoc EXCEPT ![i] = 0]
    /\ outcome' = [outcome EXCEPT ![i] = "none"]
    /\ logged' = [logged EXCEPT ![i] = "loop error"]

\* an exception reached the except clause of the loop: log it, then sleep
LoopError(i) ==
    /\ pc' = [pc EXCEPT ![i] = "sleep"]
    /\ cur' = [cur EXCEPT ![i] = 0]
    /\ nowLoc' = [nowLoc EXCEPT ![i] = 0]
    /\ outcome' = [outcome EXCEPT ![i] = "none"]
    /\ logged' = [logged EXCEPT ![i] = "loop error"]

\* the task ended with CancelledError
TaskDone(i) ==
    /\ pc' = [pc EXCEPT ![i] = "done"]
    /\ cur' = [cur EXCEPT ![i] = 0]
    /\ nowLoc' = [nowLoc EXCEPT ![i] = 0]
    /\ outcome' = [outcome EXCEPT ![i] = "none"]
    /\ logged' = [logged EXCEPT ![i] = ""]

\* the loop task exists and has not been cancelled
Live(i) == schedulerTask[i] = "task" /\ ~stopping[i]

-----------------------------------------------------------------------------
(* Public interface *)

StartScheduler_whileRunning(i) ==
    /\ ~stopping[i]
    /\ pc[i] # "top"
    /\ schedulerTask' = [schedulerTask EXCEPT ![i] = "task"]
    /\ pc' = [pc EXCEPT ![i] = "top"]
    /\ logged' = [logged EXCEPT ![i] = "scheduler started"]
    /\ UNCHANGED <<syncVars, cli, runVars, now, bootAt, ledger, locks, hashSeed,
                   stopping, cur, nowLoc, outcome>>

\* start_scheduler when no loop task exists; with a task that is not done
\* it returns at once.  The callers (the lifespan of main.py) call it and
\* stop_scheduler one after the other.
StartScheduler(i) ==
    /\ schedulerTask[i] = "None"
    /\ ~stopping[i]
    /\ schedulerTask' = [schedulerTask EXCEPT ![i] = "task"]
    /\ pc' = [pc EXCEPT ![i] = "top"]
    /\ logged' = [logged EXCEPT ![i] = "scheduler started"]
    /\ UNCHANGED <<syncVars, cli, runVars, now, bootAt, ledger, locks, hashSeed, stopping,
                   cur, nowLoc, outcome>>

StopScheduler_noFinally(i) ==
    /\ schedulerTask[i] = "task"
    /\ ~stopping[i]
    /\ stopping' = [stopping EXCEPT ![i] = TRUE]
    /\ TaskDone(i)
    /\ UNCHANGED <<syncVars, cli, runVars, now, bootAt, ledger, locks, hashSeed, schedulerTask>>

\* stop_scheduler up to its await.  Task.cancel() raises CancelledError at
\* the await the task is suspended in.  It is no Exception, so neither
\* except clause catches it.  Inside the try block the finally clause still
\* runs.  A store call that is cut off ends the session's connection, and
\* with it the session's advisory locks: a cancellation landing on the
\* release itself leaves no lock either.
StopScheduler(i) ==
    /\ schedulerTask[i] = "task"
    /\ ~stopping[i]
    /\ stopping' = [stopping EXCEPT ![i] = TRUE]
    /\ IF pc[i] \in InTry
       THEN /\ pc' = [pc EXCEPT ![i] = "unlock_cancel"]
            /\ outcome' = [outcome EXCEPT ![i] = "cancelled"]
            /\ UNCHANGED <<locks, cur, nowLoc, logged>>
       ELSE /\ locks' = Release(i)
            /\ TaskDone(i)
    /\ UNCHANGED <<syncVars, cli, runVars, now, bootAt, ledger, hashSeed, schedulerTask>>

\* stop_scheduler after its await: the task has ended
StopReturn(i) ==
    /\ stopping[i]
    /\ pc[i] = "done"
    /\ schedulerTask' = [schedulerTask EXCEPT ![i] = "None"]
    /\ stopping' = [stopping EXCEPT ![i] = FALSE]
    /\ pc' = [pc EXCEPT ![i] = "none"]
    /\ logged' = [logged EXCEPT ![i] = "scheduler stopped"]
    /\ UNCHANGED <<syncVars, cli, runVars, now, bootAt, ledger, locks, hashSeed,
                   cur, nowLoc, outcome>>

-----------------------------------------------------------------------------
(* The heartbeat loop *)

\* top of the while loop: sample now_loc, open the session
LoopTop(i) ==
    /\ nowLoc' = [nowLoc EXCEPT ![i] = now]
    /\ cur' = [cur EXCEPT ![i] = 1]
    /\ pc' = [pc EXCEPT ![i] = "due"]
    /\ logged' = [logged EXCEPT ![i] = ""]
    /\ UNCHANGED <<syncVars, cli, runVars, now, bootAt, ledger, locks, hashSeed, schedulerTask,
                   stopping, outcome>>

\* the new task is scheduled for the first time
FirstTick(i) ==
    /\ Live(i)
    /\ pc[i] = "top"
    /\ LoopTop(i)

\* the due check of the current job, with its _get_last_run
DueCheck(i) ==
    /\ Live(i)
    /\ pc[i] = "due"
    /\ LET j == JobOf(i)
       IN  IF TimeDue(j, nowLoc[i]) /\ LedgerDue(j, ledger[j], nowLoc[i], now)
           THEN /\ pc' = [pc EXCEPT ![i] = "lock"]
                /\ UNCHANGED <<cur, nowLoc, outcome, logged>>
           ELSE ToNextJob(i)
    /\ UNCHANGED <<syncVars, cli, runVars, now, bootAt, ledger, locks, hashSeed, schedulerTask,
                   stopping>>

\* _get_last_run raises
DueCheckRaises(i) ==
    /\ Live(i)
    /\ pc[i] = "due"
    /\ TimeDue(JobOf(i), nowLoc[i])
    /\ LoopError(i)
    /\ UNCHANGED <<syncVars, cli, runVars, now, bootAt, ledger, locks, hashSeed, schedulerTask,
                   stopping>>

\* pg_try_advisory_lock(key): refused when another session holds the key
advisory_lock(i, key) == ~\E l \in locks : l[1] = key /\ l[2] # i

\* _maybe_run from the lock acquisition to the entry of the try block
AcquireLock(i) ==
    /\ Live(i)
    /\ pc[i] = "lock"
    /\ LET j == JobOf(i)
           lock_key == job_key(hashSeed[i], j)
       IN  IF advisory_lock(i, lock_key)
           THEN /\ locks' = locks \cup {<<lock_key, i>>}
                /\ pc' = [pc EXCEPT ![i] = IF HasPredicate(j) THEN "gate" ELSE "run"]
                /\ UNCHANGED <<cur, nowLoc, outcome, logged>>
           ELSE /\ ToNextJob(i)
                /\ UNCHANGED locks
    /\ UNCHANGED <<syncVars, cli, runVars, now, bootAt, ledger, hashSeed, schedulerTask, stopping>>

\* _advisory_lock raises
AcquireLockRaises(i) ==
    /\ Live(i)
    /\ pc[i] = "lock"
    /\ LoopError(i)
    /\ UNCHANGED <<syncVars, cli, runVars, now, bootAt, ledger, locks, hashSeed, schedulerTask,
                   stopping>>

Gate_falseRecordsRun(i) ==
    /\ Live(i)
    /\ pc[i] = "gate"
    /\ \E pass \in BOOLEAN :
          /\ pc' = [pc EXCEPT ![i] = IF pass THEN "run" ELSE "touch"]
          /\ outcome' = [outcome EXCEPT ![i] = IF pass THEN "none" ELSE "gate_false"]
    /\ UNCHANGED <<syncVars, cli, runVars, now, bootAt, ledger, locks, hashSeed,
                   schedulerTask, stopping, cur, nowLoc, logged>>

Gate_returnsBeforeFinally(i) ==
    /\ Live(i)
    /\ pc[i] = "gate"
    /\ \E pass \in BOOLEAN :
          IF pass
          THEN /\ pc' = [pc EXCEPT ![i] = "run"]
               /\ UNCHANGED <<cur, nowLoc, outcome, logged>>
          ELSE ToNextJob(i)
    /\ UNCHANGED <<syncVars, cli, runVars, now, bootAt, ledger, locks, hashSeed, schedulerTask, stopping>>

\* the predicate answers
Gate(i) ==
    /\ Live(i)
    /\ pc[i] = "gate"
    /\ \E pass \in BOOLEAN :
          /\ pc' = [pc EXCEPT ![i] = IF pass THEN "run" ELSE "unlock"]
          /\ outcome' = [outcome EXCEPT ![i] = IF pass THEN "none" ELSE "gate_false"]
    /\ UNCHANGED <<syncVars, cli, runVars, now, bootAt, ledger, locks, hashSeed, schedulerTask,
                   stopping, cur, nowLoc, logged>>

\* the predicate raises: the finally clause runs, then the exception goes on
GateRaises(i) ==
    /\ Live(i)
    /\ pc[i] = "gate"
    /\ pc' = [pc EXCEPT ![i] = "unlock_exc"]
    /\ outcome' = [outcome EXCEPT ![i] = "gate_raised"]
    /\ UNCHANGED <<syncVars, cli, runVars, now, bootAt, ledger, locks, hashSeed, schedulerTask,
                   stopping, cur, nowLoc, logged>>

RunOk_releasesLock(i) ==
    /\ Live(i)
    /\ pc[i] = "run"
    /\ pc' = [pc EXCEPT ![i] = "touch"]
    /\ locks' = Release(i)
    /\ UNCHANGED <<syncVars, cli, runVars, now, bootAt, ledger, hashSeed, schedulerTask,
                   stopping, cur, nowLoc, outcome, logged>>

\* run_fn returns
RunOk(i) ==
    /\ Live(i)
    /\ pc[i] = "run"
    /\ pc' = [pc EXCEPT ![i] = "touch"]
    /\ UNCHANGED <<syncVars, cli, runVars, now, bootAt, ledger, locks, hashSeed, schedulerTask,
                   stopping, cur, nowLoc, outcome, logged>>

RunFails_recordsRun(i) ==
    /\ Live(i)
    /\ pc[i] = "run"
    /\ ledger' = [ledger EXCEPT ![JobOf(i)] = <<now>>]
    /\ pc' = [pc EXCEPT ![i] = "unlock"]
    /\ outcome' = [outcome EXCEPT ![i] = "run_raised"]
    /\ logged' = [logged EXCEPT ![i] = "run failed"]
    /\ UNCHANGED <<syncVars, cli, runVars, now, bootAt, locks, hashSeed, schedulerTask,
                   stopping, cur, nowLoc>>

RunFails_thenTouches(i) ==
    /\ Live(i)
    /\ pc[i] = "run"
    /\ pc' = [pc EXCEPT ![i] = "touch"]
    /\ outcome' = [outcome EXCEPT ![i] = "run_raised"]
    /\ logged' = [logged EXCEPT ![i] = "run failed"]
    /\ UNCHANGED <<syncVars, cli, runVars, now, bootAt, ledger, locks, hashSeed, schedulerTask,
                   stopping, cur, nowLoc>>

\* run_fn raises: caught, "run failed" is logged
RunFails(i) ==
    /\ Live(i)
    /\ pc[i] = "run"
    /\ pc' = [pc EXCEPT ![i] = "unlock"]
    /\ outcome' = [outcome EXCEPT ![i] = "run_raised"]
    /\ logged' = [logged EXCEPT ![i] = "run failed"]
    /\ UNCHANGED <<syncVars, cli, runVars, now, bootAt, ledger, locks, hashSeed, schedulerTask,
                   stopping, cur, nowLoc>>

\* _touch_last_run: the upsert statement
TouchExec(i) ==
    /\ Live(i)
    /\ pc[i] = "touch"
    /\ pc' = [pc EXCEPT ![i] = "commit"]
    /\ UNCHANGED <<syncVars, cli, runVars, now, bootAt, ledger, locks, hashSeed, schedulerTask,
                   stopping, cur, nowLoc, outcome, logged>>

\* _touch_last_run: the commit; then "run ok" is logged
TouchCommit(i) ==
    /\ Live(i)
    /\ pc[i] = "commit"
    /\ ledger' = [ledger EXCEPT ![JobOf(i)] = <<now>>]
    /\ pc' = [pc EXCEPT ![i] = "unlock"]
    /\ outcome' = [outcome EXCEPT ![i] = "ok"]
    /\ logged' = [logged EXCEPT ![i] = "run ok"]
    /\ UNCHANGED <<syncVars, cli, runVars, now, bootAt, locks, hashSeed, schedulerTask,
                   stopping, cur, nowLoc>>

TouchRaises_afterWrite(i) ==
    /\ Live(i)
    /\ pc[i] \in {"touch", "commit"}
    /\ ledger' = [ledger EXCEPT ![JobOf(i)] = <<now>>]
    /\ pc' = [pc EXCEPT ![i] = "unlock"]
    /\ outcome' = [outcome EXCEPT ![i] = "touch_raised"]
    /\ logged' = [logged EXCEPT ![i] = "run failed"]
    /\ UNCHANGED <<syncVars, cli, runVars, now, bootAt, locks, hashSeed, schedulerTask,
                   stopping, cur, nowLoc>>

\* _touch_last_run raises, at the statement or at the commit: caught,
\* "run failed" is logged, nothing was committed
TouchRaises(i) ==
    /\ Live(i)
    /\ pc[i] \in {"touch", "commit"}
    /\ pc' = [pc EXCEPT ![i] = "unlock"]
    /\ outcome' = [outcome EXCEPT ![i] = "touch_raised"]
    /\ logged' = [logged EXCEPT ![i] = "run failed"]
    /\ UNCHANGED <<syncVars, cli, runVars, now, bootAt, ledger, locks, hashSeed, schedulerTask,
                   stopping, cur, nowLoc>>

\* finally clause on a normal exit of the try block
Unlock(i) ==
    /\ Live(i)
    /\ pc[i] = "unlock"
    /\ locks' = Release(i)
    /\ ToNextJob(i)
    /\ UNCHANGED <<syncVars, cli, runVars, now, bootAt, ledger, hashSeed, schedulerTask, stopping>>

\* finally clause while the predicate's exception propagates to the loop
UnlockExc(i) ==
    /\ Live(i)
    /\ pc[i] = "unlock_exc"
    /\ locks' = Release(i)
    /\ LoopError(i)
    /\ UNCHANGED <<syncVars, cli, runVars, now, bootAt, ledger, hashSeed, schedulerTask, stopping>>

\* finally clause while CancelledError propagates: the task ends
UnlockCancelled(i) ==
    /\ pc[i] = "unlock_cancel"
    /\ locks' = Release(i)
    /\ TaskDone(i)
    /\ UNCHANGED <<syncVars, cli, runVars, now, bootAt, ledger, hashSeed, schedulerTask, stopping>>

\* asyncio.sleep(HEARTBEAT_SECONDS) returns and the next tick starts
Wake(i) ==
    /\ Live(i)
    /\ pc[i] = "sleep"
    /\ LoopTop(i)

\* an hour passes
AdvanceClock ==
    /\ now < bootAt + MaxElapsed
    /\ now' = now + 1
    /\ UNCHANGED <<syncVars, cli, runVars, bootAt, ledger, locks, hashSeed, schedulerTask, stopping,
                   pc, cur, nowLoc, outcome, logged>>

Next ==
    \/ AdvanceClock
    \/ \E i \in Inst : StartScheduler(i)
    \/ \E i \in Inst : FirstTick(i)
    \/ \E i \in Inst : DueCheck(i)
    \/ \E i \in Inst : DueCheckRaises(i)
    \/ \E i \in Inst : AcquireLock(i)
    \/ \E i \in Inst : AcquireLockRaises(i)
    \/ \E i \in Inst : Gate(i)
    \/ \E i \in Inst : GateRaises(i)
    \/ \E i \in Inst : RunOk(i)
    \/ \E i \in Inst : RunFails(i)
    \/ \E i \in Inst : TouchExec(i)
    \/ \E i \in Inst : TouchCommit(i)
    \/ \E i \in Inst : TouchRaises(i)
    \/ \E i \in Inst : Unlock(i)
    \/ \E i \in Inst : UnlockExc(i)
    \/ \E i \in Inst : UnlockCancelled(i)
    \/ \E i \in Inst : Wake(i)
    \/ \E i \in Inst : StopScheduler(i)
    \/ \E i \in Inst : StopReturn(i)

Spec == Init /\ [][Next]_vars

\* the service is deployed on a Sunday afternoon
InitSunday == Init /\ now = 17

\* asyncio resumes the loop task when its heartbeat sleep is over
FairSpec == InitSunday /\ [][Next]_vars /\ \A i \in Inst : WF_vars(Wake(i))

-----------------------------------------------------------------------------
(* Lock-time derivation (_calc_lock_at_pacific of utils/score_sync.py and  *)
(* calc_lock_at_pacific of database/dbmanagement.py).                      *)
(*                                                                         *)
(* Instants are seconds since Sunday 2025-10-26 00:00:00 UTC; a local      *)
(* reading is the wall clock of America/Los_Angeles counted in seconds     *)
(* from the same Sunday 00:00:00 on the wall.  Daylight time ends on the   *)
(* Sunday after, at 02:00 on the wall, which is 09:00 UTC.                 *)

\* the variables of the scheduler
schedVars == <<now, bootAt, ledger, locks, hashSeed, schedulerTask, stopping,
               pc, cur, nowLoc, outcome, logged>>

SecondsPerDay == 24 * SecondsPerHour

\* 23:59:59 as seconds into the day
EndOfDay == 23 * SecondsPerHour + 59 * 60 + 59

DstEndUtc == 7 * SecondsPerDay + 9 * SecondsPerHour

DstEndWall == 7 * SecondsPerDay + 2 * SecondsPerHour

\* most kickoff timestamps handed to one derivation
MaxKickoffs == 2

\* days (UTC) and times of day (UTC) the kickoffs are drawn from:
\* Monday 3 November to Monday 10 November; 00:30, 07:30 and 20:00
KickoffDays == 8..15

KickoffTimesOfDay == {30 * 60, 7 * SecondsPerHour + 30 * 60, 20 * SecondsPerHour}

KickoffInstants ==
    {d * SecondsPerDay + s : d \in KickoffDays, s \in KickoffTimesOfDay}

\* the non-empty sets of at most MaxKickoffs instants
KickoffSets ==
    {{f[k] : k \in 1..MaxKickoffs} : f \in [1..MaxKickoffs -> KickoffInstants]}

\* tzinfo.utcoffset of PT at a UTC instant
utcoffset(t) ==
    IF t < DstEndUtc THEN 0 - 7 * SecondsPerHour ELSE 0 - 8 * SecondsPerHour

\* datetime.astimezone(PT): UTC instant -> local wall clock
astimezone_PT(t) == t + utcoffset(t)

\* datetime.astimezone(timezone.utc) of a local wall clock reading (fold = 0)
astimezone_utc(wall) ==
    IF wall < DstEndWall THEN wall + 7 * SecondsPerHour
                         ELSE wall + 8 * SecondsPerHour

\* the calendar day of a wall clock reading, counted from the first Sunday
LocalDay(wall) == wall \div SecondsPerDay

\* datetime.weekday() of a wall clock reading: Monday = 0 .. Sunday = 6
weekday(wall) == (LocalDay(wall) + 6) % 7

Min(S) == CHOOSE x \in S : \A y \in S : x <= y

calc_lock_at_pacific_noEdgeCase(kickoffs) ==
    LET earliest_pt == astimezone_PT(Min(kickoffs))
        days_since_wed == (weekday(earliest_pt) - 2) % 7
        shifted == earliest_pt - days_since_wed * SecondsPerDay
    IN  astimezone_utc(LocalDay(shifted) * SecondsPerDay + EndOfDay)

\* _calc_lock_at_pacific of score_sync.py
calc_lock_at_pacific(kickoffs) ==
    LET earliest_pt == astimezone_PT(Min(kickoffs))
        d0 == (weekday(earliest_pt) - 2) % 7
        days_since_wed == IF d0 = 0 THEN 7 ELSE d0
        \* timedelta arithmetic on an aware datetime moves the wall clock
        shifted == earliest_pt - days_since_wed * SecondsPerDay
        \* replace(hour=23, minute=59, second=59, microsecond=0)
        lock_wed_pt == LocalDay(shifted) * SecondsPerDay + EndOfDay
    IN  astimezone_utc(lock_wed_pt)

\* calc_lock_at_pacific of dbmanagement.py
seed_calc_lock_at_pacific(kickoffs) ==
    LET earliest == astimezone_PT(Min(kickoffs))
        d0 == (weekday(earliest) - 2) % 7
        days_since_wed == IF d0 = 0 THEN 7 ELSE d0
        wed == earliest - days_since_wed * SecondsPerDay
        \* datetime(wed.year, wed.month, wed.day, 23, 59, 59, tzinfo=PT)
        lock_pt == LocalDay(wed) * SecondsPerDay + EndOfDay
    IN  astimezone_utc(lock_pt)

LockInit ==
    /\ SchedulerInit
    /\ now = 17
    /\ hashSeed = [i \in Inst |-> 0]
    /\ games = <<>>
    /\ lock_at = <<>>
    /\ feed = <<>>
    /\ lastCall = NoCall
    /\ kickoffs_utc \in KickoffSets
    /\ lock_out = <<>>
    /\ pending = <<>>

\* load_schedule derives the lock time of a week from its kickoffs
DeriveLock ==
    /\ lock_out = <<>>
    /\ lock_out' = <<calc_lock_at_pacific(kickoffs_utc)>>
    /\ UNCHANGED <<schedVars, cli, runVars, games, lock_at, feed, lastCall, kickoffs_utc,
                   pending>>

\* seed_all derives the lock time of a week from its kickoffs
SeedDeriveLock ==
    /\ lock_out = <<>>
    /\ lock_out' = <<seed_calc_lock_at_pacific(kickoffs_utc)>>
    /\ UNCHANGED <<schedVars, cli, runVars, games, lock_at, feed, lastCall, kickoffs_utc,
                   pending>>

LockNext == DeriveLock \/ SeedDeriveLock

LockSpec == LockInit /\ [][LockNext]_vars

-----------------------------------------------------------------------------
(* Schedule and score reconciliation (utils/score_sync.py), the seeding of *)
(* database/dbmanagement.py and the lock adjustment of routes/admin.py,    *)
(* for the games of one week.  A call is one step: its statements run in   *)
(* one transaction.  NULL is <<>>, a value v is <<v>>.                     *)

\* (home_abbr, away_abbr) of the week's games, in the order of the scoreboard
TripletOrder == << <<"SEA", "SF">>, <<"DAL", "NYG">> >>

Triplets == {TripletOrder[k] : k \in 1..Len(TripletOrder)}

TripletPos(tr) == CHOOSE k \in 1..Len(TripletOrder) : TripletOrder[k] = tr

\* event identifiers the provider uses for each game: the identifier of the
\* first game may change, and no identifier is ever used for two games
EventIdsOf(tr) == IF tr = TripletOrder[1] THEN {"401", "402"} ELSE {"403"}

EventIds == UNION {EventIdsOf(tr) : tr \in Triplets}

\* kickoffs the provider announces: Thursday 6 November 17:15 local,
\* Wednesday 5 November 13:00 local, Sunday 9 November 10:00 local
ThuKickoff == 12 * SecondsPerDay + SecondsPerHour + 15 * 60

WedKickoff == 10 * SecondsPerDay + 21 * SecondsPerHour

SunKickoff == 14 * SecondsPerDay + 18 * SecondsPerHour

\* the first game is a Thursday game that may be moved to the Wednesday
FeedKickoffs(tr) ==
    IF tr = TripletOrder[1] THEN {ThuKickoff, WedKickoff} ELSE {SunKickoff}

\* status state and scores of a game as the provider reports them
FeedSnapshots ==
    { [state |-> "pre",  home |-> <<>>,     away |-> <<>>],
      [state |-> "in",   home |-> <<"10">>, away |-> <<"0">>],
      [state |-> "post", home |-> <<"24">>, away |-> <<"17">>] }

EventsOf(tr) ==
    { [id |-> i, date |-> k, triplet |-> tr, state |-> s.state,
       home_score |-> s.home, away_score |-> s.away] :
          i \in EventIdsOf(tr), k \in FeedKickoffs(tr), s \in FeedSnapshots }

Events == UNION {EventsOf(tr) : tr \in Triplets}

\* a scoreboard: at most one event per game, each with its own identifier
Feeds ==
    { f \in UNION {[1..n -> Events] : n \in 0..Len(TripletOrder)} :
        \A a, b \in 1..Len(f) :
            a < b => /\ TripletPos(f[a].triplet) < TripletPos(f[b].triplet)
                     /\ f[a].id # f[b].id }

\* fields of an event that a payload may lack
Fields == {"id", "date", "competitors", "status"}

\* int(v) for the numerals the provider sends
PyInt(s) ==
    CASE s = "0" -> 0 [] s = "10" -> 10 [] s = "17" -> 17 [] s = "24" -> 24
      [] s = "401" -> 401 [] s = "402" -> 402 [] s = "403" -> 403

to_int_or_none(v) == IF v = <<>> THEN <<>> ELSE <<PyInt(v[1])>>

map_scores_and_status_inAsFinal(ev) ==
    [status |-> IF ev.state = "pre" THEN "scheduled" ELSE "final",
     home_score |-> to_int_or_none(ev.home_score),
     away_score |-> to_int_or_none(ev.away_score)]

\* _map_scores_and_status
map_scores_and_status(ev) ==
    [status |-> IF ev.state = "pre" THEN "scheduled"
                ELSE IF ev.state = "post" THEN "final"
                ELSE "in_progress",
     home_score |-> to_int_or_none(ev.home_score),
     away_score |-> to_int_or_none(ev.away_score)]

\* COALESCE(a, b)
Coalesce(a, b) == IF a # <<>> THEN a ELSE b

\* the table with the row of triplet tr inserted or replaced
Put(g, tr, row) ==
    [t \in (DOMAIN g) \cup {tr} |-> IF t = tr THEN row ELSE g[t]]

\* the fields of an event each operation reads, in the order it reads them
Reads(op) ==
    CASE op = "load_schedule"          -> {"id", "date", "competitors"}
      [] op = "sync_scores_and_status" -> {"id", "status", "competitors"}
      [] op = "refresh_kickoffs"       -> {"id", "date", "competitors"}
      [] op = "seed_all"               -> {"date", "competitors"}

\* event number bad of the payload lacks the field: the operation raises
\* KeyError or StopIteration when it reaches that event
RaisesAt(op, bad, field) == bad # 0 /\ field \in Reads(op)

\* the events the loop of the operation handles before it ends or raises
Handled(op, evs, bad, field) ==
    IF RaisesAt(op, bad, field) THEN SubSeq(evs, 1, bad - 1) ELSE evs

\* what a payload may lack: nothing, or one field of one of its events
Faults(evs) ==
    {<<0, "id">>} \cup {<<b, f>> : b \in 1..Len(evs), f \in Fields}

\* the running result of a loop over events
Acc(g) == [games |-> g, count |-> 0, written |-> {}]

upsert_game_schedule_row_replaces(st, ev) ==
    [games |-> Put(st.games, ev.triplet,
                   [kickoff_at |-> ev.date, status |-> "scheduled",
                    home_score |-> <<>>, away_score |-> <<>>,
                    espn_event_id |-> <<PyInt(ev.id)>>]),
     count |-> st.count + 1,
     written |-> st.written \cup {ev.triplet}]

\* _upsert_game_schedule_row: INSERT .. ON CONFLICT DO UPDATE affects one
\* row whether it inserts or updates, so rowcount is 1
upsert_game_schedule_row(st, ev) ==
    LET g == st.games
        tr == ev.triplet
        espn_event_id == <<PyInt(ev.id)>>
        row == IF tr \in DOMAIN g
               THEN [g[tr] EXCEPT !.kickoff_at = ev.date,
                                  !.espn_event_id = Coalesce(@, espn_event_id)]
               ELSE [kickoff_at |-> ev.date, status |-> "scheduled",
                     home_score |-> <<>>, away_score |-> <<>>,
                     espn_event_id |-> espn_event_id]
    IN  [games |-> Put(g, tr, row), count |-> st.count + 1,
         written |-> st.written \cup {tr}]

\* the order scheduled, in_progress, final
StatusRank(status) ==
    CASE status = "scheduled" -> 0
      [] status = "in_progress" -> 1
      [] status = "final" -> 2

ScoreDistinct_forwardOnly(row, m) ==
    /\ StatusRank(m.status) >= StatusRank(row.status)
    /\ \/ row.home_score # m.home_score
       \/ row.away_score # m.away_score
       \/ row.status # m.status

\* the IS DISTINCT FROM tests of the two score updates
ScoreDistinct(row, m) ==
    \/ row.home_score # m.home_score
    \/ row.away_score # m.away_score
    \/ row.status # m.status

update_scores_by_event_id_noChangeTest(g, id, m) ==
    {tr \in DOMAIN g : g[tr].espn_event_id = <<id>>}

\* the rows matched by the WHERE clause of _update_scores_by_event_id
update_scores_by_event_id(g, id, m) ==
    {tr \in DOMAIN g : g[tr].espn_event_id = <<id>> /\ ScoreDistinct(g[tr], m)}

update_scores_by_triplet_anyGame(g, tr0, m) ==
    {tr \in DOMAIN g : ScoreDistinct(g[tr], m) \/ g[tr].espn_event_id = <<>>}

\* the rows matched by the WHERE clause of _update_scores_by_triplet
update_scores_by_triplet(g, tr0, m) ==
    {tr \in DOMAIN g :
        tr = tr0 /\ (ScoreDistinct(g[tr], m) \/ g[tr].espn_event_id = <<>>)}

\* one iteration of the loop of sync_scores_and_status
sync_event(st, ev) ==
    LET g == st.games
        event_id == PyInt(ev.id)
        m == map_scores_and_status(ev)
        byId == update_scores_by_event_id(g, event_id, m)
        byTriplet == IF byId = {}
                     THEN update_scores_by_triplet(g, ev.triplet, m)
                     ELSE {}
        rows == byId \cup byTriplet
    IN  [games |->
            [tr \in DOMAIN g |->
                IF tr \in rows
                THEN [g[tr] EXCEPT
                        !.home_score = m.home_score,
                        !.away_score = m.away_score,
                        !.status = m.status,
                        !.espn_event_id =
                            IF tr \in byTriplet THEN Coalesce(@, <<event_id>>)
                                                ELSE @]
                ELSE g[tr]],
         count |-> st.count + Cardinality(rows),
         written |-> st.written \cup rows]

\* the rows matched by the WHERE clause of _update_kickoff_by_event_id
update_kickoff_by_event_id(g, id, new_kickoff) ==
    {tr \in DOMAIN g :
        g[tr].espn_event_id = <<id>> /\ g[tr].kickoff_at # new_kickoff}

update_kickoff_by_triplet_noChangeTest(g, tr0, new_kickoff) ==
    {tr \in DOMAIN g : tr = tr0}

\* the rows matched by the WHERE clause of _update_kickoff_by_triplet
update_kickoff_by_triplet(g, tr0, new_kickoff) ==
    {tr \in DOMAIN g : tr = tr0 /\ g[tr].kickoff_at # new_kickoff}

kickoff_event_upserts(st, ev) == upsert_game_schedule_row(st, ev)

\* one iteration of the loop of refresh_kickoffs
kickoff_event(st, ev) ==
    LET g == st.games
        event_id == PyInt(ev.id)
        byId == update_kickoff_by_event_id(g, event_id, ev.date)
        byTriplet == IF byId = {}
                     THEN update_kickoff_by_triplet(g, ev.triplet, ev.date)
                     ELSE {}
        rows == byId \cup byTriplet
    IN  [games |->
            [tr \in DOMAIN g |->
                IF tr \in rows
                THEN [g[tr] EXCEPT
                        !.kickoff_at = ev.date,
                        !.espn_event_id =
                            IF tr \in byTriplet THEN Coalesce(@, <<event_id>>)
                                                ELSE @]
                ELSE g[tr]],
         count |-> st.count + Cardinality(rows),
         written |-> st.written \cup rows]

\* one INSERT .. ON CONFLICT DO NOTHING of seed_all: no event id is stored
seed_event(st, ev) ==
    LET g == st.games
        tr == ev.triplet
    IN  IF tr \in DOMAIN g
        THEN st
        ELSE [games |-> Put(g, tr, [kickoff_at |-> ev.date,
                                    status |-> "scheduled",
                                    home_score |-> <<>>, away_score |-> <<>>,
                                    espn_event_id |-> <<>>]),
              count |-> st.count + 1,
              written |-> st.written \cup {tr}]

RECURSIVE load_games(_, _)
load_games(st, evs) ==
    IF evs = <<>> THEN st
    ELSE load_games(upsert_game_schedule_row(st, Head(evs)), Tail(evs))

RECURSIVE sync_games(_, _)
sync_games(st, evs) ==
    IF evs = <<>> THEN st
    ELSE sync_games(sync_event(st, Head(evs)), Tail(evs))

RECURSIVE kickoff_games(_, _)
kickoff_games(st, evs) ==
    IF evs = <<>> THEN st
    ELSE kickoff_games(kickoff_event(st, Head(evs)), Tail(evs))

RECURSIVE seed_games(_, _)
seed_games(st, evs) ==
    IF evs = <<>> THEN st
    ELSE seed_games(seed_event(st, Head(evs)), Tail(evs))

\* the kickoffs of a list of events
KickoffsOf(evs) == {evs[k].date : k \in 1..Len(evs)}

\* the list without its element number bad (all of it when bad is 0)
Without(evs, bad) ==
    IF bad = 0 THEN evs
    ELSE SubSeq(evs, 1, bad - 1) \o SubSeq(evs, bad + 1, Len(evs))

\* what a call leaves in lastCall: the operation, the count it returned,
\* the rows it wrote and committed, whether it raised, and whether it
\* repeats the call before it on an unchanged scoreboard
Called(op, res, raised, committed) ==
    [op |-> op,
     count |-> IF raised THEN 0 ELSE res.count,
     written |-> IF committed THEN res.written ELSE {},
     raised |-> raised,
     repeat |-> lastCall.op = op /\ ~lastCall.raised]

-----------------------------------------------------------------------------
(* The operations on the store *)

\* the kickoff first announced for a game
Announced(tr) == IF tr = TripletOrder[1] THEN ThuKickoff ELSE SunKickoff

\* the events of a scoreboard
EventsIn(f) == {f[k] : k \in 1..Len(f)}

\* the scoreboard that lists the given events, in the order of the games
FeedFrom(evs) ==
    [k \in 1..Cardinality(evs) |->
        CHOOSE ev \in evs :
            Cardinality({e \in evs :
                TripletPos(e.triplet) < TripletPos(ev.triplet)}) = k - 1]

\* at most one event per game, each with its own identifier
WellFormed(evs) ==
    \A e1, e2 \in evs :
        e1 # e2 => (e1.triplet # e2.triplet /\ e1.id # e2.id)

\* before the season: whatever is listed is not started and not moved
SyncInit ==
    /\ SchedulerInit
    /\ now = 17
    /\ hashSeed = [i \in Inst |-> 0]
    /\ games = <<>>
    /\ lock_at = <<>>
    /\ feed \in {f \in Feeds :
                    \A ev \in EventsIn(f) :
                        ev.state = "pre" /\ ev.date = Announced(ev.triplet)}
    /\ lastCall = NoCall
    /\ kickoffs_utc = {}
    /\ lock_out = <<>>
    /\ pending = <<>>

\* the scoreboard with event ev replaced by the events in by
Relisted(ev, by) == (EventsIn(feed) \ ev) \cup by

\* the provider serves the given events from now on
Serve(evs) ==
    /\ WellFormed(evs)
    /\ pending = <<>>
    /\ feed' = FeedFrom(evs)
    /\ lastCall' = NoCall
    /\ UNCHANGED <<schedVars, cli, runVars, games, lock_at, kickoffs_utc, lock_out,
                   pending>>

\* a game starts or ends
FeedAdvances ==
    \E ev \in EventsIn(feed), s \in FeedSnapshots :
        /\ \/ ev.state = "pre" /\ s.state = "in"
           \/ ev.state = "in" /\ s.state = "post"
        /\ Serve(Relisted({ev}, {[ev EXCEPT !.state = s.state,
                                            !.home_score = s.home,
                                            !.away_score = s.away]}))

\* a game that has not started is moved to another kickoff
FeedReschedules ==
    \E ev \in EventsIn(feed) : \E k \in FeedKickoffs(ev.triplet) \ {ev.date} :
        /\ ev.state = "pre"
        /\ Serve(Relisted({ev}, {[ev EXCEPT !.date = k]}))

\* a game is listed, is taken off the list, or gets another identifier
FeedRelists ==
    \/ \E ev \in EventsIn(feed) : Serve(Relisted({ev}, {}))
    \/ \E ev \in EventsIn(feed) : \E i \in EventIdsOf(ev.triplet) :
          i # ev.id /\ Serve(Relisted({ev}, {[ev EXCEPT !.id = i]}))
    \/ \E ev \in Events :
          /\ ev.state = "pre"
          /\ ev.date = Announced(ev.triplet)
          /\ Serve(Relisted({}, {ev}))

\* seed_all of dbmanagement.py for the week: fetch_week leaves out an event
\* without date or competitors; rows that exist are left alone
SeedAll ==
    \E fault \in Faults(feed) :
        LET bad == fault[1]
            field == fault[2]
            op == "seed_all"
            week_games == IF bad # 0 /\ field \in Reads(op)
                          THEN Without(feed, bad) ELSE feed
            res == seed_games(Acc(games), week_games)
        IN  /\ pending = <<>>
            /\ games' = res.games
            /\ lock_at' =
                  IF week_games # <<>> /\ lock_at = <<>>
                  THEN <<seed_calc_lock_at_pacific(KickoffsOf(week_games))>>
                  ELSE lock_at
            /\ lastCall' = Called(op, res, FALSE, TRUE)
            /\ UNCHANGED <<schedVars, cli, runVars, feed, kickoffs_utc, lock_out,
                           pending>>

\* ScoreSync.load_schedule for the week, called from the command line: the
\* kickoffs of all events are parsed before anything is written, and an
\* exception leaves the session without a commit
LoadSchedule ==
    \E fault \in Faults(feed) :
        LET bad == fault[1]
            field == fault[2]
            op == "load_schedule"
            raised == RaisesAt(op, bad, field)
            evs == IF raised /\ field = "date" THEN <<>>
                   ELSE Handled(op, feed, bad, field)
            res == load_games(Acc(games), evs)
        IN  /\ pending = <<>>
            /\ games' = IF raised THEN games ELSE res.games
            /\ lock_at' =
                  IF raised \/ feed = <<>> THEN lock_at
                  ELSE <<calc_lock_at_pacific(KickoffsOf(feed))>>
            /\ lastCall' = Called(op, res, raised, ~raised)
            /\ UNCHANGED <<schedVars, cli, runVars, feed, kickoffs_utc, lock_out,
                           pending>>

\* what a call that raised leaves in its session: the statements it had
\* executed, not committed and not rolled back
Uncommitted(res, raised) ==
    IF raised /\ res.written # {}
    THEN <<[games |-> res.games, written |-> res.written]>>
    ELSE <<>>

\* ScoreSync.sync_scores_and_status(week): the commit is the last statement,
\* so when an event raises nothing has been committed
SyncScoresAndStatus ==
    \E fault \in Faults(feed) :
        LET bad == fault[1]
            field == fault[2]
            op == "sync_scores_and_status"
            raised == RaisesAt(op, bad, field)
            res == sync_games(Acc(games), Handled(op, feed, bad, field))
        IN  /\ pending = <<>>
            /\ games' = IF raised THEN games ELSE res.games
            /\ pending' = Uncommitted(res, raised)
            /\ lastCall' = Called(op, res, raised, ~raised)
            /\ UNCHANGED <<schedVars, cli, runVars, lock_at, feed, kickoffs_utc, lock_out>>

\* ScoreSync.refresh_kickoffs(week), with the same treatment of a failure
RefreshKickoffs ==
    \E fault \in Faults(feed) :
        LET bad == fault[1]
            field == fault[2]
            op == "refresh_kickoffs"
            raised == RaisesAt(op, bad, field)
            res == kickoff_games(Acc(games), Handled(op, feed, bad, field))
        IN  /\ pending = <<>>
            /\ games' = IF raised THEN games ELSE res.games
            /\ pending' = Uncommitted(res, raised)
            /\ lastCall' = Called(op, res, raised, ~raised)
            /\ UNCHANGED <<schedVars, cli, runVars, lock_at, feed, kickoffs_utc, lock_out>>

\* the caller was _maybe_run: it catches the exception of the runner and
\* does not roll back, the loop goes on to the next job on the same session,
\* and the _touch_last_run of that job commits the session
SessionCommit ==
    /\ pending # <<>>
    /\ games' = pending[1].games
    /\ lastCall' = [lastCall EXCEPT !.written = pending[1].written]
    /\ pending' = <<>>
    /\ UNCHANGED <<schedVars, cli, runVars, lock_at, feed, kickoffs_utc, lock_out>>

\* the session is closed without a commit (end of the async with block of
\* the tick or of the command): its statements are rolled back
SessionClose ==
    /\ pending # <<>>
    /\ pending' = <<>>
    /\ UNCHANGED <<schedVars, cli, runVars, games, lock_at, feed, lastCall,
                   kickoffs_utc, lock_out>>

\* day of the month of a UTC day: day 0 is 26 October, day 6 is 1 November
DayOfMonth(d) == IF d < 6 THEN 26 + d ELSE d - 5

\* lock times an administrator may ask for, around the first kickoff
AdminLockChoices(first_kickoff) ==
    {first_kickoff - SecondsPerDay, first_kickoff, first_kickoff + 1}

\* adjust_week_lock of routes/admin.py; a rejected request changes nothing.
\* The current week must still be in state "scheduled": none of its games
\* has started.
AdjustWeekLock ==
    /\ pending = <<>>
    /\ lock_at # <<>>
    /\ DOMAIN games # {}
    /\ \A tr \in DOMAIN games : games[tr].status = "scheduled"
    /\ LET first_kickoff == Min({games[tr].kickoff_at : tr \in DOMAIN games})
           midnight == (first_kickoff \div SecondsPerDay) * SecondsPerDay
           back == (weekday(midnight) - 1) % 7
           tuesday_before == midnight - back * SecondsPerDay
       IN  \E new_lock \in AdminLockChoices(first_kickoff) :
              \* replace(day=...) raises ValueError outside the month
              /\ DayOfMonth(LocalDay(midnight)) - back >= 1
              /\ new_lock >= tuesday_before
              /\ new_lock <= first_kickoff
              /\ lock_at' = <<new_lock>>
    /\ lastCall' = [NoCall EXCEPT !.op = "adjust_week_lock"]
    /\ UNCHANGED <<schedVars, cli, runVars, games, feed, kickoffs_utc, lock_out,
                   pending>>

\* the reconciliation of scores and status while the kickoffs stay as
\* announced
SyncNext ==
    \/ FeedAdvances
    \/ FeedRelists
    \/ SeedAll
    \/ LoadSchedule
    \/ SyncScoresAndStatus
    \/ RefreshKickoffs
    \/ SessionCommit
    \/ SessionClose

SyncSpec == SyncInit /\ [][SyncNext]_vars

\* the reconciliation of the schedule before any game has started
ScheduleNext ==
    \/ FeedReschedules
    \/ FeedRelists
    \/ SeedAll
    \/ LoadSchedule
    \/ SyncScoresAndStatus
    \/ RefreshKickoffs
    \/ SessionCommit
    \/ SessionClose
    \/ AdjustWeekLock

ScheduleSpec == SyncInit /\ [][ScheduleNext]_vars

-----------------------------------------------------------------------------
(* The operator's run-job command (cmd_run_job of cli.py), run beside the  *)
(* heartbeat loop of one service process.  The command has its own session *)
(* and takes no advisory lock.  The store answers its statements.          *)

\* job names the operator may type: a job with a gate that is always past
\* its due check, a weekly job, and a name that is no job
TypedJobs == {"score_sync", "email_mon", "no_such_job"}

\* the process whose loop runs beside the command
LoopProcess == "p1"

\* cmd_run_job up to the await of the runner; an unknown name returns 2
RunJob ==
    /\ cli.pc = "none"
    /\ \E job \in TypedJobs, mark \in BOOLEAN :
          cli' = IF job \notin Jobs
                 THEN [CliIdle EXCEPT !.pc = "exit", !.job = job,
                                      !.mark = mark, !.code = <<2>>]
                 ELSE [CliIdle EXCEPT !.pc = "run", !.job = job,
                                      !.mark = mark]
    /\ UNCHANGED <<schedVars, syncVars, runVars>>

\* the runner returns: on to the ledger statement with --mark, else return 0
CliRunOk ==
    /\ cli.pc = "run"
    /\ cli' = IF cli.mark
              THEN [cli EXCEPT !.pc = "mark", !.ran = @ + 1]
              ELSE [cli EXCEPT !.pc = "exit", !.ran = @ + 1, !.code = <<0>>]
    /\ UNCHANGED <<schedVars, syncVars, runVars>>

CliRunFails_thenMarks ==
    /\ cli.pc = "run"
    /\ cli' = IF cli.mark
              THEN [cli EXCEPT !.pc = "mark", !.ran = @ + 1, !.raised = TRUE]
              ELSE [cli EXCEPT !.pc = "exit", !.ran = @ + 1, !.raised = TRUE,
                               !.code = <<1>>]
    /\ UNCHANGED <<schedVars, syncVars, runVars>>

\* the runner raises: nothing catches it, the command ends with a traceback
CliRunFails ==
    /\ cli.pc = "run"
    /\ cli' = [cli EXCEPT !.pc = "exit", !.ran = @ + 1, !.raised = TRUE,
                          !.code = <<1>>]
    /\ UNCHANGED <<schedVars, syncVars, runVars>>

\* the INSERT .. ON CONFLICT into scheduler_runs
CliMarkExec ==
    /\ cli.pc = "mark"
    /\ cli' = [cli EXCEPT !.pc = "commit"]
    /\ UNCHANGED <<schedVars, syncVars, runVars>>

\* its commit, then return 0
CliMarkCommit ==
    /\ cli.pc = "commit"
    /\ ledger' = [ledger EXCEPT ![cli.job] = <<now>>]
    /\ cli' = [cli EXCEPT !.pc = "exit", !.marked = @ + 1, !.code = <<0>>]
    /\ UNCHANGED <<syncVars, runVars, now, bootAt, locks, hashSeed, schedulerTask,
                   stopping, pc, cur, nowLoc, outcome, logged>>

\* the command has ended; the operator may type the next one
CliExit ==
    /\ cli.pc = "exit"
    /\ cli' = CliIdle
    /\ UNCHANGED <<schedVars, syncVars, runVars>>

\* the steps of the loop task of process i and of its start and stop
LoopNext(i) ==
    \/ StartScheduler(i)
    \/ FirstTick(i)
    \/ DueCheck(i)
    \/ DueCheckRaises(i)
    \/ AcquireLock(i)
    \/ AcquireLockRaises(i)
    \/ Gate(i)
    \/ GateRaises(i)
    \/ RunOk(i)
    \/ RunFails(i)
    \/ TouchExec(i)
    \/ TouchCommit(i)
    \/ TouchRaises(i)
    \/ Unlock(i)
    \/ UnlockExc(i)
    \/ UnlockCancelled(i)
    \/ Wake(i)
    \/ StopScheduler(i)
    \/ StopReturn(i)

TriggerInit == Init /\ hashSeed = [i \in Inst |-> 0]

TriggerNext ==
    \/ AdvanceClock
    \/ LoopNext(LoopProcess)
    \/ RunJob
    \/ CliRunOk
    \/ CliRunFails
    \/ CliMarkExec
    \/ CliMarkCommit
    \/ CliExit

TriggerSpec == TriggerInit /\ [][TriggerNext]_vars

-----------------------------------------------------------------------------
(* One service process whose fetches fail transiently *)

\* clock values at which the process may start: Sun 17:00, Sun 23:00
RetryStartTimes == {17, 23}

RetryInit ==
    /\ now \in RetryStartTimes
    /\ bootAt = now
    /\ ledger = [j \in Jobs |-> <<>>]
    /\ locks = {}
    /\ hashSeed = [i \in Inst |-> 0]
    /\ schedulerTask = [i \in Inst |-> "None"]
    /\ stopping = [i \in Inst |-> FALSE]
    /\ pc = [i \in Inst |-> "none"]
    /\ cur = [i \in Inst |-> 0]
    /\ nowLoc = [i \in Inst |-> 0]
    /\ outcome = [i \in Inst |-> "none"]
    /\ logged = [i \in Inst |-> ""]
    /\ cli = CliIdle
    /\ season = NoSeason
    /\ jobResult = NoResult
    /\ SyncIdle

RetryNext == AdvanceClock \/ LoopNext(LoopProcess)

\* the runner of the k-th job returns
FetchSucceeds(k) == RunOk(LoopProcess) /\ cur[LoopProcess] = k

\* asyncio resumes the loop task whenever the await it is suspended in has
\* completed; a fetch that is tried again and again succeeds in the end
RetryFairness ==
    /\ WF_vars(LoopNext(LoopProcess))
    /\ \A k \in 1..Len(JobOrder) : SF_vars(FetchSucceeds(k))

RetrySpec == RetryInit /\ [][RetryNext]_vars /\ RetryFairness

-----------------------------------------------------------------------------
(* The job runners (utils/scheduled_jobs.py) and the gate of score_sync    *)
(* (_any_live_games), run by the loop of one service process over a store  *)
(* of two weeks with one game each.  Lock times and kickoffs are hours on  *)
(* the clock of the scheduler.  The provider announces the kickoffs that   *)
(* are stored; the gates of the notification jobs read picks and are left  *)
(* open.                                                                    *)

\* the last week of the season
LastWeek == 18

WeekNumbers == {LastWeek - 1, LastWeek}

HoursPerWeek == 7 * 24

Statuses == {"scheduled", "in_progress", "final"}

\* the Sunday 00:00 of the games of the first stored week: a week ahead,
\* the Sunday the behaviour starts on, a week ago
FirstSundays == {HoursPerWeek, 0, 0 - HoursPerWeek}

\* the store when the first stored week plays on the given Sunday: each
\* week locks with the end of the Wednesday before its Sunday and its game
\* kicks off on the Sunday at 13:00
SeasonAt(first, st) ==
    [w \in WeekNumbers |->
        LET sunday == first + (w - (LastWeek - 1)) * HoursPerWeek
        IN  [lock_at |-> sunday - 3 * 24,
             kickoff_at |-> sunday + 13,
             status |-> st[w]]]

\* the stores a starting service may find: a game whose kickoff is ahead is
\* scheduled; a game of the running week is in any state; a game of a past
\* week is final, or still in progress when no poll has seen it end (the
\* service was down, or every fetch since has failed)
Seasons ==
    {SeasonAt(first, st) : first \in FirstSundays, st \in [WeekNumbers -> Statuses]}

StoredSeason(s, t) ==
    \A w \in WeekNumbers :
        /\ s[w].kickoff_at > t => s[w].status = "scheduled"
        /\ s[w].kickoff_at + HoursPerWeek <= t => s[w].status # "scheduled"

\* SELECT MIN(week_number) FROM weeks WHERE lock_at > now()
min_unlocked_week(s, t) ==
    LET ws == {w \in DOMAIN s : s[w].lock_at > t}
    IN  IF ws = {} THEN <<>>
        ELSE <<CHOOSE w \in ws : \A v \in ws : w <= v>>

\* SELECT MAX(week_number) FROM weeks WHERE lock_at <= now()
max_locked_week(s, t) ==
    LET ws == {w \in DOMAIN s : s[w].lock_at <= t}
    IN  IF ws = {} THEN <<>>
        ELSE <<CHOOSE w \in ws : \A v \in ws : w >= v>>

weeks_to_touch_alwaysNext(s, t) ==
    LET current_week == min_unlocked_week(s, t)
    IN  IF current_week = <<>> THEN {}
        ELSE {current_week[1], current_week[1] + 1}

\* weeks_to_touch of run_kickoff_sync
weeks_to_touch(s, t) ==
    LET current_week == min_unlocked_week(s, t)
    IN  IF current_week = <<>> THEN {}
        ELSE IF current_week[1] < LastWeek
             THEN {current_week[1], current_week[1] + 1}
             ELSE {current_week[1]}

\* _any_live_games
any_live_games(s, t) ==
    \E w \in DOMAIN s : s[w].kickoff_at <= t /\ s[w].status # "final"

NotificationJobs == {"email_sun", "email_mon", "email_tue_warn"}

RunnerInit ==
    /\ now \in StartTimes
    /\ bootAt = now
    /\ ledger = [j \in Jobs |-> <<>>]
    /\ locks = {}
    /\ hashSeed = [i \in Inst |-> 0]
    /\ schedulerTask = [i \in Inst |-> "None"]
    /\ stopping = [i \in Inst |-> FALSE]
    /\ pc = [i \in Inst |-> "none"]
    /\ cur = [i \in Inst |-> 0]
    /\ nowLoc = [i \in Inst |-> 0]
    /\ outcome = [i \in Inst |-> "none"]
    /\ logged = [i \in Inst |-> ""]
    /\ cli = CliIdle
    /\ season \in {s \in Seasons : StoredSeason(s, now)}
    /\ jobResult = NoResult
    /\ SyncIdle

\* the predicate of score_sync answers from the store
ScoreGate(i) ==
    /\ Live(i)
    /\ pc[i] = "gate"
    /\ JobOf(i) = "score_sync"
    /\ LET pass == any_live_games(season, now)
       IN  /\ pc' = [pc EXCEPT ![i] = IF pass THEN "run" ELSE "unlock"]
           /\ outcome' = [outcome EXCEPT
                             ![i] = IF pass THEN "none" ELSE "gate_false"]
    /\ UNCHANGED <<syncVars, cli, runVars, now, bootAt, ledger, locks, hashSeed,
                   schedulerTask, stopping, cur, nowLoc, logged>>

\* the predicate of a notification job answers
NotificationGate(i) ==
    /\ pc[i] = "gate"
    /\ JobOf(i) \in NotificationJobs
    /\ Gate(i)

\* run_kickoff_sync returns
RunKickoffSync(i) ==
    /\ Live(i)
    /\ pc[i] = "run"
    /\ JobOf(i) = "kickoff_sync"
    /\ pc' = [pc EXCEPT ![i] = "touch"]
    /\ jobResult' = [job |-> "kickoff_sync",
                     weeks |-> weeks_to_touch(season, now),
                     sent |-> <<>>]
    /\ UNCHANGED <<syncVars, cli, season, now, bootAt, ledger, locks, hashSeed,
                   schedulerTask, stopping, cur, nowLoc, outcome, logged>>

\* run_poll_scores returns: the latest locked week has been refreshed from
\* the scoreboard, which may report any state for its game
RunPollScores(i) ==
    /\ Live(i)
    /\ pc[i] = "run"
    /\ JobOf(i) = "score_sync"
    /\ pc' = [pc EXCEPT ![i] = "touch"]
    /\ LET week == max_locked_week(season, now)
       IN  IF week = <<>>
           THEN /\ jobResult' = [job |-> "score_sync", weeks |-> {},
                                 sent |-> <<>>]
                /\ UNCHANGED season
           ELSE /\ jobResult' = [job |-> "score_sync", weeks |-> {week[1]},
                                 sent |-> <<>>]
                /\ \E st \in Statuses :
                      season' = [season EXCEPT ![week[1]].status = st]
    /\ UNCHANGED <<syncVars, cli, now, bootAt, ledger, locks, hashSeed,
                   schedulerTask, stopping, cur, nowLoc, outcome, logged>>

RunEmail_raisesWhenNotSent(i) ==
    /\ Live(i)
    /\ pc[i] = "run"
    /\ JobOf(i) \in NotificationJobs
    /\ \E ok \in BOOLEAN :
          /\ jobResult' = [job |-> JobOf(i), weeks |-> {}, sent |-> <<ok>>]
          /\ pc' = [pc EXCEPT ![i] = IF ok THEN "touch" ELSE "unlock"]
          /\ outcome' = [outcome EXCEPT
                            ![i] = IF ok THEN @ ELSE "run_raised"]
          /\ logged' = [logged EXCEPT ![i] = IF ok THEN @ ELSE "run failed"]
    /\ UNCHANGED <<syncVars, cli, season, now, bootAt, ledger, locks, hashSeed,
                   schedulerTask, stopping, cur, nowLoc>>

\* run_email_sun, run_email_mon or run_email_tue_warn returns: the result
\* carries the flag send_bulk_email_bcc returned, which is false when the
\* send raised inside it or no recipient was valid
RunEmail(i) ==
    /\ Live(i)
    /\ pc[i] = "run"
    /\ JobOf(i) \in NotificationJobs
    /\ \E ok \in BOOLEAN :
          jobResult' = [job |-> JobOf(i), weeks |-> {}, sent |-> <<ok>>]
    /\ pc' = [pc EXCEPT ![i] = "touch"]
    /\ UNCHANGED <<syncVars, cli, season, now, bootAt, ledger, locks, hashSeed,
                   schedulerTask, stopping, cur, nowLoc, outcome, logged>>

RunnerLoop(i) ==
    \/ StartScheduler(i) \/ FirstTick(i)
    \/ DueCheck(i) \/ DueCheckRaises(i)
    \/ AcquireLock(i) \/ AcquireLockRaises(i)
    \/ ScoreGate(i) \/ NotificationGate(i) \/ GateRaises(i)
    \/ RunKickoffSync(i) \/ RunPollScores(i) \/ RunEmail(i) \/ RunFails(i)
    \/ TouchExec(i) \/ TouchCommit(i) \/ TouchRaises(i)
    \/ Unlock(i) \/ UnlockExc(i) \/ UnlockCancelled(i)
    \/ Wake(i)
    \/ StopScheduler(i) \/ StopReturn(i)

RunnerNext == AdvanceClock \/ RunnerLoop(LoopProcess)

RunnerSpec == RunnerInit /\ [][RunnerNext]_vars

-----------------------------------------------------------------------------
(* Properties *)

\* process i took the step
Stepped(i) == pc'[i] # pc[i] \/ cur'[i] # cur[i]

\* two timestamps fall in the same eligible window of job j
SameWindow(j, t1, t2) ==
    CASE j = "kickoff_sync" -> Date(t1) = Date(t2)
      [] j = "score_sync"   -> Abs(t2 - t1) * SecondsPerHour < LIVE_POLL_SECONDS
      [] OTHER              -> start_of_local_week_sun(t1) = start_of_local_week_sun(t2)

\* C1: of two processes contending for the lock of one job name exactly one
\* acquires it: never are two processes both past the lock acquisition of
\* the same job (in its gate, runner, ledger update or lock release).
C1_OneAcquirer ==
    \A i1, i2 \in Inst :
        (i1 # i2 /\ pc[i1] \in Critical /\ pc[i2] \in Critical)
            => JobOf(i1) # JobOf(i2)

\* C2: a job's runner completes successfully at most once per eligible
\* window: no runner returns for a job whose ledger already records a run
\* in the window of the current time.  Stated for processes whose lock keys
\* agree, where the lock does exclude them, so that the runs it finds are
\* those of a process that read the ledger before the other recorded.
C2_OncePerWindow ==
    [][\A i \in Inst :
          (/\ \A k \in Inst : hashSeed[k] = hashSeed[i]
           /\ pc[i] = "run" /\ pc'[i] = "touch"
           /\ ledger[JobOf(i)] # <<>>)
              => ~SameWindow(JobOf(i), ledger[JobOf(i)][1], now)]_vars

\* C3: every process computes the same lock key for the same job name.
C3_StableKey ==
    \A i1, i2 \in Inst : \A j \in Jobs :
        job_key(hashSeed[i1], j) = job_key(hashSeed[i2], j)

\* C4: an exception while one job is handled never keeps the later jobs of
\* the tick from being handled: the tick ends (the task goes to its sleep)
\* only from the handling of the last registered job.
C4_TickHandlesEveryJob ==
    [][\A i \in Inst :
          (pc[i] # "sleep" /\ pc'[i] = "sleep") => cur[i] = Len(JobOrder)]_vars

C8_GracefulDrain ==
    [][\A i \in Inst :
          pc[i] \in {"run", "touch", "commit"}
              => pc'[i] \in {"run", "touch", "commit", "unlock"}]_vars

C10_LoopSurvivesFailure ==
    /\ \A i \in Inst :
          (logged[i] = "loop error") ~> ((pc[i] = "due" /\ cur[i] = 1) \/ stopping[i])
    /\ [][\A i \in Inst :
            /\ (logged'[i] = "loop error" /\ logged[i] # "loop error")
                  => pc'[i] = "sleep"
            /\ (pc[i] = "sleep" /\ pc'[i] # "sleep")
                  => ((pc'[i] = "due" /\ cur'[i] = 1) \/ stopping'[i])
            /\ (pc'[i] = "done" /\ pc[i] # "done") => stopping'[i]]_vars

C10_Witness ==
    \E i \in Inst :
        /\ logged[i] = "loop error"
        /\ pc[i] = "sleep"
        /\ Live(i)

\* C11: a slow or hanging runner stalls only its own slot: while a process
\* awaits the runner of one job, no later job of the same tick that is due
\* (by the tick's time and by the ledger) is left waiting to be evaluated.
C11_RunnerStallsOnlyItsSlot ==
    \A i \in Inst :
        pc[i] = "run" =>
            \A k \in (cur[i] + 1)..Len(JobOrder) :
                ~(/\ TimeDue(JobOrder[k], nowLoc[i])
                  /\ LedgerDue(JobOrder[k], ledger[JobOrder[k]], nowLoc[i], now))

\* C12: kickoff_sync passes its due check only when the tick's local hour is
\* at or past the configured hour and the ledger holds no kickoff_sync run
\* dated on the tick's local day; and a successful kickoff_sync run is never
\* recorded on a local day for which the ledger already records one.
C12_KickoffOncePerDay ==
    [][\A i \in Inst :
          /\ (pc[i] = "due" /\ JobOf(i) = "kickoff_sync" /\ pc'[i] = "lock")
                => /\ Hour(nowLoc[i]) >= KICKOFF_SYNC_HOUR
                   /\ \/ ledger["kickoff_sync"] = <<>>
                      \/ Date(ledger["kickoff_sync"][1]) # Date(nowLoc[i])
          /\ (/\ pc[i] = "commit" /\ JobOf(i) = "kickoff_sync"
              /\ outcome'[i] = "ok"
              /\ ledger["kickoff_sync"] # <<>>)
                => Date(ledger["kickoff_sync"][1]) # Date(now)]_vars

\* C18: the derived lock time reads 23:59:59 on the local wall clock of a
\* Wednesday that lies one to seven local days before the local day of the
\* earliest kickoff, seven exactly when that day is itself a Wednesday, and
\* it is strictly earlier than the earliest kickoff.
C18_LockIsPrecedingWednesday ==
    lock_out # <<>> =>
        LET earliest == Min(kickoffs_utc)
            kick_pt == astimezone_PT(earliest)
            lock_pt == astimezone_PT(lock_out[1])
            back == LocalDay(kick_pt) - LocalDay(lock_pt)
        IN  /\ weekday(lock_pt) = 2
            /\ lock_pt % SecondsPerDay = EndOfDay
            /\ back \in 1..7
            /\ (back = 7) <=> (weekday(kick_pt) = 2)
            /\ lock_out[1] < earliest

\* the earliest of two kickoffs falls on a Wednesday, and daylight time ends
\* between the lock and that kickoff
C18_Witness ==
    /\ lock_out # <<>>
    /\ Cardinality(kickoffs_utc) = 2
    /\ weekday(astimezone_PT(Min(kickoffs_utc))) = 2
    /\ lock_out[1] < DstEndUtc
    /\ DstEndUtc < Min(kickoffs_utc)

\* the rows an event resolves to: those that carry its identifier, and when
\* there is none the row of its (week, home, away) triple
Resolved(g, ev) ==
    LET byId == {tr \in DOMAIN g : g[tr].espn_event_id = <<PyInt(ev.id)>>}
    IN  IF byId # {} THEN byId ELSE {tr \in DOMAIN g : tr = ev.triplet}

\* the operation of lastCall returned, and nothing has changed since
Returned(op) == lastCall.op = op /\ ~lastCall.raised

\* C13: a second load_schedule on an unchanged scoreboard changes no row and
\* returns the count zero.
C13_PopulateIdempotent ==
    (Returned("load_schedule") /\ lastCall.repeat)
        => (lastCall.count = 0 /\ lastCall.written = {})

\* C14: a second sync_scores_and_status on an unchanged scoreboard reports
\* zero updated games and writes no game row, whether the stored identifier
\* is null, equal to the scoreboard's or different from it.
C14_RefreshScoresIdempotent ==
    (Returned("sync_scores_and_status") /\ lastCall.repeat)
        => (lastCall.count = 0 /\ lastCall.written = {})

\* the repeated call found a finished game stored under another identifier
\* than the one the scoreboard carries for it
C14_Witness ==
    /\ Returned("sync_scores_and_status")
    /\ lastCall.repeat
    /\ \E ev \in EventsIn(feed) :
          /\ ev.triplet \in DOMAIN games
          /\ games[ev.triplet].espn_event_id \notin {<<>>, <<PyInt(ev.id)>>}
          /\ games[ev.triplet].status = "final"

\* C15: sync_scores_and_status writes and counts a game exactly when one of
\* home_score, away_score, status of the scoreboard differs from the stored
\* value: the count it returns is the number of such games, and it writes
\* those rows and no other.
C15_CountsExactlyTheDiffering ==
    [][(lastCall'.op = "sync_scores_and_status" /\ ~lastCall'.raised) =>
          LET differing ==
                {tr \in DOMAIN games :
                    \E ev \in EventsIn(feed) :
                        /\ tr \in Resolved(games, ev)
                        /\ ScoreDistinct(games[tr], map_scores_and_status(ev))}
          IN  /\ lastCall'.count = Cardinality(differing)
              /\ lastCall'.written = differing]_vars

\* C16: an espn_event_id that is set is never changed, and a game whose
\* identifier is null has the scoreboard's identifier after a call of
\* load_schedule, sync_scores_and_status or refresh_kickoffs that finds the
\* game by its triple.
C16_IdBackfilledOnceNeverOverwritten ==
    [][\A tr \in DOMAIN games :
          /\ tr \in DOMAIN games'
          /\ games[tr].espn_event_id # <<>>
                => games'[tr].espn_event_id = games[tr].espn_event_id
          /\ (/\ games[tr].espn_event_id = <<>>
              /\ lastCall'.op \in {"load_schedule", "sync_scores_and_status",
                                   "refresh_kickoffs"}
              /\ ~lastCall'.raised)
                => \A ev \in EventsIn(feed) :
                      ev.triplet = tr
                          => games'[tr].espn_event_id = <<PyInt(ev.id)>>]_vars

\* the status and scores the scoreboard reports for an event
Reported(ev) ==
    [status |-> CASE ev.state = "pre" -> "scheduled"
                  [] ev.state = "post" -> "final"
                  [] OTHER -> "in_progress",
     home_score |-> IF ev.home_score = <<>> THEN <<>>
                    ELSE <<PyInt(ev.home_score[1])>>,
     away_score |-> IF ev.away_score = <<>> THEN <<>>
                    ELSE <<PyInt(ev.away_score[1])>>]

\* C17: after sync_scores_and_status returns, every game an event of the
\* scoreboard resolves to stores the reported scores and the mapped status:
\* scheduled for pre, final for post, in_progress for anything else.
C17_StoresMappedStatusAndScores ==
    Returned("sync_scores_and_status") =>
        \A ev \in EventsIn(feed) : \A tr \in Resolved(games, ev) :
            /\ games[tr].status = Reported(ev).status
            /\ games[tr].home_score = Reported(ev).home_score
            /\ games[tr].away_score = Reported(ev).away_score

\* a game is stored in progress at 10-0, another final at 24-17
C17_Witness ==
    /\ Returned("sync_scores_and_status")
    /\ \E t1, t2 \in DOMAIN games :
          /\ games[t1].status = "in_progress"
          /\ games[t1].home_score = <<10>> /\ games[t1].away_score = <<0>>
          /\ games[t2].status = "final"
          /\ games[t2].home_score = <<24>> /\ games[t2].away_score = <<17>>

\* C19: the lock time stored for the week is strictly earlier than the
\* earliest kickoff among the games stored for it.
C19_LockBeforeEarliestKickoff ==
    (lock_at # <<>> /\ DOMAIN games # {})
        => lock_at[1] < Min({games[tr].kickoff_at : tr \in DOMAIN games})

\* C20: an event that lacks its id, date, competitors or status does not
\* abort the batch: load_schedule, sync_scores_and_status and
\* refresh_kickoffs end without raising and go on to the remaining events.
C20_BadEventDoesNotAbortBatch ==
    lastCall.op \in {"load_schedule", "sync_scores_and_status",
                     "refresh_kickoffs"}
        => ~lastCall.raised

\* C21: the writes of one call for the week are committed together, all of
\* them or none: a call that raised part-way through its events leaves none
\* of its writes in the store, also after a later commit on its session.
C21_WritesCommittedTogether ==
    lastCall.raised => lastCall.written = {}

\* one iteration of the loop of the operation, and the loop over a prefix
ApplyEvent(op, g, ev) ==
    IF op = "sync_scores_and_status" THEN sync_event(Acc(g), ev)
                                     ELSE kickoff_event(Acc(g), ev)

ApplyEvents(op, g, evs) ==
    IF op = "sync_scores_and_status" THEN sync_games(Acc(g), evs)
                                     ELSE kickoff_games(Acc(g), evs)

C29_RefreshKickoffsCountsChanges ==
    [][(lastCall'.op = "refresh_kickoffs" /\ ~lastCall'.raised) =>
          LET moved == {tr \in DOMAIN games :
                          games'[tr].kickoff_at # games[tr].kickoff_at}
          IN  /\ DOMAIN games' = DOMAIN games
              /\ lastCall'.written = moved
              /\ lastCall'.count = Cardinality(moved)
              /\ \A tr \in moved : \E ev \in EventsIn(feed) :
                    /\ tr \in Resolved(games, ev)
                    /\ games'[tr].kickoff_at = ev.date
              /\ lastCall'.repeat =>
                    (lastCall'.count = 0 /\ games' = games)]_vars

\* the call is repeated after it moved a game to the Wednesday
C29_Witness ==
    /\ Returned("refresh_kickoffs")
    /\ lastCall.repeat
    /\ \E tr \in DOMAIN games : games[tr].kickoff_at = WedKickoff

\* the event is found among the stored games, by identifier or by triple
Matched(ev) == Resolved(games, ev) # {}

\* C30: an event of the scoreboard that matches no stored game, neither by
\* identifier nor by triple, is skipped: it changes no row, creates no game
\* and adds nothing to the count, and the other events of the batch are
\* applied and committed as if it had not been listed.
C30_UnmatchedEventIsSkipped ==
    [][(/\ lastCall'.op \in {"sync_scores_and_status", "refresh_kickoffs"}
        /\ ~lastCall'.raised) =>
          LET listed == ApplyEvents(lastCall'.op, games,
                                    SelectSeq(feed, Matched))
          IN  /\ DOMAIN games' = DOMAIN games
              /\ \A ev \in EventsIn(feed) :
                    ~Matched(ev) =>
                        LET alone == ApplyEvent(lastCall'.op, games, ev)
                        IN  alone.games = games /\ alone.count = 0
              /\ games' = listed.games
              /\ lastCall'.count = listed.count
              /\ lastCall'.written = listed.written]_vars

\* the first event of the scoreboard matched no stored game and the second
\* one was applied and counted
C30_Witness ==
    /\ Returned("sync_scores_and_status")
    /\ Len(feed) = 2
    /\ feed[1].triplet \notin DOMAIN games
    /\ lastCall.written = {feed[2].triplet}
    /\ lastCall.count = 1
    /\ games[feed[2].triplet].status = "final"

\* process i holds the advisory lock of the job it is handling
HoldsJobLock(i) == <<job_key(hashSeed[i], JobOf(i)), i>> \in locks

\* C24: the steps of an attempt come in the order due check, lock
\* acquisition, gate, runner, ledger update, lock release: the lock is asked
\* for only after a due check that was true, the gate is entered only from
\* the lock acquisition, the runner only from a gate that passed or, for
\* the job without gate, from the lock acquisition, the ledger update only
\* from the runner; gate, runner and ledger update happen while the process
\* holds the lock of the job, the ledger is written only by the commit of the
\* ledger update, and the lock is released only by the finally clause.
C24_AttemptStepsInOrder ==
    [][\A i \in Inst :
          /\ (pc'[i] = "lock" /\ pc[i] # "lock")
                => /\ pc[i] = "due"
                   /\ TimeDue(JobOf(i), nowLoc[i])
                   /\ LedgerDue(JobOf(i), ledger[JobOf(i)], nowLoc[i], now)
          /\ (pc'[i] = "gate" /\ pc[i] # "gate")
                => (pc[i] = "lock" /\ JobOf(i) # "kickoff_sync")
          /\ (pc'[i] = "run" /\ pc[i] # "run")
                => \/ pc[i] = "gate"
                   \/ pc[i] = "lock" /\ JobOf(i) = "kickoff_sync"
          /\ (pc'[i] = "touch" /\ pc[i] # "touch") => pc[i] = "run"
          /\ (pc'[i] = "commit" /\ pc[i] # "commit") => pc[i] = "touch"
          /\ pc'[i] \in InTry
                => <<job_key(hashSeed'[i], JobOrder[cur'[i]]), i>> \in locks'
          /\ \A j \in Jobs :
                ledger'[j] # ledger[j]
                => \E k \in Inst :
                      /\ pc[k] = "commit"
                      /\ JobOf(k) = j
                      /\ HoldsJobLock(k)
                      /\ pc'[k] = "unlock"
                      /\ <<job_key(hashSeed[k], JobOf(k)), k>> \in locks'
          /\ (HoldsLock(i) /\ \A l \in locks' : l[2] # i)
                => pc[i] \in InFinally]_vars

\* a job with a gate has been run and recorded, and its lock is still held
C24_Witness ==
    \E i \in Inst :
        /\ pc[i] = "unlock"
        /\ outcome[i] = "ok"
        /\ JobOf(i) # "kickoff_sync"
        /\ HoldsJobLock(i)
        /\ ledger[JobOf(i)] = <<now>>

\* the weekly notification jobs
WeeklyJobs == {"email_sun", "email_mon", "email_tue_warn"}

\* 00:00 local of the day of t
DayStart(t) == t - Hour(t)

\* C25: a weekly notification job is attempted only on its weekday, at or
\* past its hour, and while the ledger holds no run of the job at or after
\* 00:00 local of that day: this holds when the due check lets the job
\* through, and still when the attempt enters its gate.
C25_WeeklyJobOncePerWeek ==
    [][\A i \in Inst :
          /\ (pc[i] = "due" /\ pc'[i] = "lock" /\ JobOf(i) \in WeeklyJobs)
                => /\ TimeDue(JobOf(i), nowLoc[i])
                   /\ \/ ledger[JobOf(i)] = <<>>
                      \/ ledger[JobOf(i)][1] < DayStart(nowLoc[i])
          /\ (pc[i] = "lock" /\ pc'[i] = "gate" /\ JobOf(i) \in WeeklyJobs)
                => /\ TimeDue(JobOf(i), nowLoc[i])
                   /\ \/ ledger[JobOf(i)] = <<>>
                      \/ ledger[JobOf(i)][1] < DayStart(nowLoc[i])]_vars

\* C26: score_sync passes its due check exactly when the ledger has no run
\* of it or the last one is at least the poll interval old, its runner is
\* entered only from its gate, and two consecutive runs recorded by the
\* loops are at least one poll interval apart.
C26_ScoreSyncSpacedByPollInterval ==
    [][\A i \in Inst :
          /\ (pc[i] = "due" /\ JobOf(i) = "score_sync" /\ Stepped(i)
                  /\ pc'[i] \in {"lock", "due"})
                => ((pc'[i] = "lock") <=>
                      \/ ledger["score_sync"] = <<>>
                      \/ (now - ledger["score_sync"][1]) * SecondsPerHour
                            >= LIVE_POLL_SECONDS)
          /\ (pc'[i] = "run" /\ pc[i] # "run" /\ JobOf(i) = "score_sync")
                => pc[i] = "gate"
          /\ (/\ pc[i] = "commit" /\ JobOf(i) = "score_sync"
              /\ outcome'[i] = "ok"
              /\ ledger["score_sync"] # <<>>)
                => (ledger'["score_sync"][1] - ledger["score_sync"][1])
                       * SecondsPerHour >= LIVE_POLL_SECONDS]_vars

\* C22: the run-job command executes the runner of the named job once,
\* whatever the due check and the gate of the job would answer; it writes
\* the ledger record of the job exactly when --mark was given and the runner
\* returned without raising; for a name that is no job it runs nothing and
\* writes nothing.
C22_ManualTriggerRunsOnce ==
    [][/\ (cli'.pc = "exit" /\ cli.pc # "exit") =>
            IF cli'.job \in Jobs
            THEN /\ cli'.ran = 1
                 /\ (cli'.marked = 1) <=> (cli'.mark /\ ~cli'.raised)
                 /\ cli'.marked \in {0, 1}
            ELSE /\ cli'.ran = 0
                 /\ cli'.marked = 0
                 /\ cli'.code = <<2>>
                 /\ ledger' = ledger
       /\ (cli'.ran # cli.ran /\ cli'.pc # "none")
             => (cli.pc = "run" /\ cli'.ran = cli.ran + 1)
       /\ (cli'.marked # cli.marked /\ cli'.pc # "none")
             => /\ cli.pc = "commit"
                /\ ledger' = [ledger EXCEPT ![cli.job] = <<now>>]
       /\ (cli' # cli /\ cli'.marked = cli.marked) => ledger' = ledger]_vars

\* the command has run and recorded the Monday notification on a day that
\* is no Monday, while the loop of the process was running
C22_Witness ==
    /\ cli.pc = "exit"
    /\ cli.job = "email_mon"
    /\ cli.ran = 1
    /\ cli.marked = 1
    /\ Weekday(now) # 0
    /\ ledger["email_mon"] = <<now>>
    /\ Live(LoopProcess)

\* C23: never do two attempts execute the body of one job at the same time,
\* be they loops of two processes or the run-job command beside a loop.
C23_SingleFlightEverywhere ==
    /\ \A i1, i2 \in Inst :
          (i1 # i2 /\ pc[i1] = "run" /\ pc[i2] = "run")
              => JobOf(i1) # JobOf(i2)
    /\ \A i \in Inst :
          (pc[i] = "run" /\ cli.pc = "run") => JobOf(i) # cli.job

\* the attempt of job j by the loop has ended with "run failed" raised by
\* the runner
RunFailed(j) ==
    /\ pc[LoopProcess] = "unlock"
    /\ outcome[LoopProcess] = "run_raised"
    /\ JobOf(LoopProcess) = j

\* an attempt of job j by the loop has run and recorded the run
RunRecorded(j) ==
    /\ pc[LoopProcess] = "unlock"
    /\ outcome[LoopProcess] = "ok"
    /\ JobOf(LoopProcess) = j
    /\ ledger[j] = <<now>>

\* what ends the retries of job j other than a recorded run: the due window
\* is over, the service is stopped, the gate of the job answers false, or a
\* call on the store raises
RetriesEnd(j) ==
    \/ ~TimeDue(j, now)
    \/ ~Live(LoopProcess)
    \/ outcome[LoopProcess] = "gate_false" /\ JobOf(LoopProcess) = j
    \/ outcome[LoopProcess] \in {"gate_raised", "touch_raised"}
    \/ logged[LoopProcess] = "loop error"

\* C27: an attempt whose runner raises leaves the ledger as it was, so the
\* due check of the job still passes; and when the loop keeps ticking and
\* the fetch succeeds in the end, the job is run and recorded, unless before
\* that its due window ends, the service is stopped, its gate closes or a
\* call on the store raises.
C27_RetryUntilRecorded ==
    /\ [][\A j \in Jobs :
            (~RunFailed(j) /\ RunFailed(j)')
                => /\ ledger' = ledger
                   /\ LedgerDue(j, ledger'[j], nowLoc'[LoopProcess], now')]_vars
    /\ \A j \in Jobs :
          [](RunFailed(j) => <>(RunRecorded(j) \/ RetriesEnd(j)))

\* the kickoff sync, attempted and not recorded by the tick that recorded
\* the score sync at the start hour, is run and recorded by a tick of the
\* next hour
C27_Witness ==
    /\ RunRecorded("kickoff_sync")
    /\ now = bootAt + 1
    /\ ledger["score_sync"] = <<bootAt>>

\* C31: when the scoreboard reports an earlier state for a game than the
\* one stored, a sync_scores_and_status that returns writes the earlier
\* status and the reported scores over the stored ones.
C31_BackwardTransitionIsWritten ==
    [][(/\ pending = <<>>
        /\ feed' = feed
        /\ lastCall'.op = "sync_scores_and_status"
        /\ ~lastCall'.raised)
          => \A ev \in EventsIn(feed) : \A tr \in Resolved(games, ev) :
                StatusRank(Reported(ev).status) < StatusRank(games[tr].status)
                  => /\ games'[tr].status = Reported(ev).status
                     /\ games'[tr].home_score = Reported(ev).home_score
                     /\ games'[tr].away_score = Reported(ev).away_score
                     /\ tr \in lastCall'.written]_vars

\* the first game, stored under identifier 401, is listed again as not
\* started under identifier 402; the call wrote its row, which only the
\* difference of status or scores can have caused, and the row is now
\* scheduled without scores
C31_Witness ==
    /\ Returned("sync_scores_and_status")
    /\ TripletOrder[1] \in DOMAIN games
    /\ TripletOrder[1] \in lastCall.written
    /\ games[TripletOrder[1]].espn_event_id = <<401>>
    /\ games[TripletOrder[1]].status = "scheduled"
    /\ games[TripletOrder[1]].home_score = <<>>
    /\ \E ev \in EventsIn(feed) :
          ev.triplet = TripletOrder[1] /\ ev.id = "402" /\ ev.state = "pre"

\* the operations of the reconciliation engine, and the seeding that
\* creates the rows before the first season
EngineOps ==
    {"load_schedule", "sync_scores_and_status", "refresh_kickoffs", "seed_all"}

UnlockedWeeks == {w \in DOMAIN season : season[w].lock_at > now}

\* C33: with w the lowest-numbered week that is not locked, the runner of
\* kickoff_sync refreshes w and w+1 when w is before the last week and only
\* the last week otherwise; with no such week it refreshes nothing and
\* returns; whenever it returns the loop goes on to record the run, and the
\* record makes the job not due for the rest of the day.
C33_KickoffSyncRefreshesCurrentAndNext ==
    [][/\ (pc[LoopProcess] = "run" /\ JobOf(LoopProcess) = "kickoff_sync"
           /\ jobResult'.job = "kickoff_sync" /\ pc'[LoopProcess] # "run"
           /\ outcome'[LoopProcess] = "none")
             => /\ pc'[LoopProcess] = "touch"
                /\ ledger' = ledger
                /\ UnlockedWeeks = {} => jobResult'.weeks = {}
                /\ \A w \in UnlockedWeeks :
                      (\A v \in UnlockedWeeks : w <= v)
                        => jobResult'.weeks =
                             IF w < LastWeek THEN {w, w + 1} ELSE {LastWeek}
       /\ (pc[LoopProcess] = "commit" /\ pc'[LoopProcess] = "unlock"
           /\ outcome'[LoopProcess] = "ok"
           /\ JobOf(LoopProcess) = "kickoff_sync")
             => /\ ledger'["kickoff_sync"] = <<now>>
                /\ ~LedgerDue("kickoff_sync", ledger'["kickoff_sync"],
                              now', now')]_vars

\* every week is locked: the runner refreshed nothing, and the run is
\* recorded
C33_Witness ==
    /\ UnlockedWeeks = {}
    /\ jobResult.job = "kickoff_sync"
    /\ jobResult.weeks = {}
    /\ RunRecorded("kickoff_sync")

\* the gate of job j has answered false in the attempt of the loop
GateFalse(j) ==
    /\ outcome[LoopProcess] = "gate_false"
    /\ JobOf(LoopProcess) = j

\* the loop is at the gate of job j
AtGate(j) == pc[LoopProcess] = "gate" /\ JobOf(LoopProcess) = j

\* what keeps the loop from the gate of job j: the due window is over, the
\* service is stopped, or a call on the store raises into the loop
GateRetriesEnd(j) ==
    \/ ~TimeDue(j, now)
    \/ ~Live(LoopProcess)
    \/ outcome[LoopProcess] = "gate_raised"
    \/ logged[LoopProcess] = "loop error"

\* C34: when the gate of a due job answers false, the attempt goes to the
\* release of the lock without running the job and without a write to the
\* ledger; after the release the process holds no lock and the due check of
\* the job still passes; and while the loop keeps ticking the gate of the
\* job is evaluated again, unless the due window ends, the service is
\* stopped or a call on the store raises.
C34_GateFalseKeepsJobDue ==
    /\ [][/\ (pc[LoopProcess] = "gate" /\ outcome'[LoopProcess] = "gate_false")
               => /\ pc'[LoopProcess] = "unlock"
                  /\ ledger' = ledger
                  /\ HoldsLock(LoopProcess)'
          /\ (pc[LoopProcess] = "unlock" /\ outcome[LoopProcess] = "gate_false"
              /\ pc'[LoopProcess] # "unlock" /\ ~stopping'[LoopProcess])
               => /\ ~HoldsLock(LoopProcess)'
                  /\ ledger' = ledger
                  /\ LET j == JobOf(LoopProcess)
                     IN  LedgerDue(j, ledger'[j], nowLoc[LoopProcess], now')]_vars
    /\ \A j \in Jobs :
          [](GateFalse(j) => <>(AtGate(j) \/ GateRetriesEnd(j)))

\* the gate of the Sunday notification has answered false inside its
\* window: the attempt is at the release of its lock, nothing is recorded
C34_Witness ==
    /\ GateFalse("email_sun")
    /\ pc[LoopProcess] = "unlock"
    /\ HoldsLock(LoopProcess)
    /\ TimeDue("email_sun", now)
    /\ ledger["email_sun"] = <<>>

\* C35: load_schedule leaves status, home_score and away_score of every
\* stored game as they are, keeps every stored game, and leaves an event
\* identifier that is stored as it is.
C35_PopulateKeepsResults ==
    [][(/\ pending = <<>>
        /\ feed' = feed
        /\ lastCall'.op = "load_schedule")
          => \A tr \in DOMAIN games :
                /\ tr \in DOMAIN games'
                /\ games'[tr].status = games[tr].status
                /\ games'[tr].home_score = games[tr].home_score
                /\ games'[tr].away_score = games[tr].away_score
                /\ games[tr].espn_event_id # <<>>
                     => games'[tr].espn_event_id = games[tr].espn_event_id]_vars

\* load_schedule has written the row of a game that is final at 24-17 and
\* of a game in progress at 10-0, and both still are
C35_Witness ==
    /\ Returned("load_schedule")
    /\ \E t1, t2 \in lastCall.written :
          /\ games[t1].status = "final"
          /\ games[t1].home_score = <<24>> /\ games[t1].away_score = <<17>>
          /\ games[t2].status = "in_progress"
          /\ games[t2].home_score = <<10>> /\ games[t2].away_score = <<0>>

\* the runner last returned was that of notification job j, and the send
\* had failed
SendFailed(j) ==
    /\ j \in NotificationJobs
    /\ jobResult.job = j
    /\ jobResult.sent = <<FALSE>>

\* C36: when the send of a notification job returns false, the runner
\* returns and the attempt goes on to the ledger; the commit records the
\* run; and with the run recorded, the due check of the job on the same day
\* does not start another attempt.
C36_FailedSendIsRecorded ==
    [][/\ (pc[LoopProcess] = "run" /\ pc'[LoopProcess] # "run"
           /\ jobResult' # jobResult /\ jobResult'.sent = <<FALSE>>)
             => /\ pc'[LoopProcess] = "touch"
                /\ outcome'[LoopProcess] = "none"
                /\ jobResult'.job = JobOf(LoopProcess)
       /\ (pc[LoopProcess] = "commit" /\ pc'[LoopProcess] = "unlock"
           /\ outcome'[LoopProcess] = "ok" /\ SendFailed(JobOf(LoopProcess)))
             => ledger'[JobOf(LoopProcess)] = <<now>>
       /\ (pc[LoopProcess] = "due" /\ SendFailed(JobOf(LoopProcess))
           /\ ledger[JobOf(LoopProcess)] # <<>>
           /\ pc'[LoopProcess] # "due")
             => pc'[LoopProcess] # "lock"]_vars

\* a tick after the Sunday notification was recorded with a failed send is
\* at the due check of the job, inside its window
C36_Witness ==
    /\ SendFailed("email_sun")
    /\ ledger["email_sun"] # <<>>
    /\ pc[LoopProcess] = "due"
    /\ JobOf(LoopProcess) = "email_sun"
    /\ TimeDue("email_sun", nowLoc[LoopProcess])

\* C37: a process without a task handle has no loop task, no pending stop
\* and no lock; a loop task is created only by a start that finds none,
\* and starts at the top of the loop; a stop returns only when the task has
\* ended, and leaves no handle and no task.
C37_OneLoopTaskPerProcess ==
    /\ [](\A i \in Inst :
            /\ schedulerTask[i] = "None"
                 => (pc[i] = "none" /\ ~stopping[i] /\ ~HoldsLock(i))
            /\ pc[i] # "none" => schedulerTask[i] = "task")
    /\ [][\A i \in Inst :
            /\ (logged'[i] = "scheduler started" /\ logged[i] # logged'[i])
                 => /\ schedulerTask[i] = "None"
                    /\ pc[i] = "none"
                    /\ schedulerTask'[i] = "task"
                    /\ pc'[i] = "top"
            /\ (pc'[i] = "top" /\ pc[i] # "top")
                 => logged'[i] = "scheduler started"
            /\ (stopping[i] /\ ~stopping'[i])
                 => /\ pc[i] = "done"
                    /\ schedulerTask'[i] = "None"
                    /\ pc'[i] = "none"]_vars

\* the service was started, ran the kickoff sync, was stopped, and has been
\* started again: its loop task is a fresh one
C37_Witness ==
    /\ logged[LoopProcess] = "scheduler started"
    /\ schedulerTask[LoopProcess] = "task"
    /\ pc[LoopProcess] = "top"
    /\ ledger["kickoff_sync"] # <<>>

\* the game of week w has kicked off and is not final
LiveGame(w) == season[w].kickoff_at <= now /\ season[w].status # "final"

\* C38: while the loop executes the runner of score_sync, the week the
\* runner refreshes, the highest-numbered locked week, has a game that has
\* kicked off and is not final.
C38_PollsOnlyAWeekWithLiveGames ==
    (pc[LoopProcess] = "run" /\ JobOf(LoopProcess) = "score_sync")
        => \E w \in DOMAIN season :
              /\ max_locked_week(season, now) = <<w>>
              /\ LiveGame(w)


====
